---------------------------- MODULE Spec2Model ----------------------------
(***************************************************************************)
(* Model of pymvc/model/datatypes.py: the field type descriptors of the    *)
(* pymvc model layer (ModelTypeBase and its ten subclasses), their         *)
(* constructors and the create_instance / to_model_data conversions.       *)
(*                                                                         *)
(* Python values are records [t, v, s, items]: t is the name of the        *)
(* value's class, v an integer payload, s a text payload and items the     *)
(* contained values.  Exceptions are results with ok = FALSE and the       *)
(* exception class in err.                                                 *)
(***************************************************************************)
EXTENDS Integers, Sequences, FiniteSets, TLC

VARIABLES
    uuid4_default,  \* the value of uuid.uuid4() evaluated when line 129 is defined
    descs,          \* the descriptors constructed so far, in order
    given,          \* history: given[i] is the default argument descs[i] was built with
    last            \* the latest operation: its inputs and its outcome

vars == <<uuid4_default, descs, given, last>>

---------------------------------------------------------------------------
(* Bounds *)

MaxLen == 2        \* longest sequence handed to a List descriptor
MaxDescs == 2      \* descriptors built in one history of UniqueIdType constructions

---------------------------------------------------------------------------
(* Python values *)

Val(t, v, s, items) == [t |-> t, v |-> v, s |-> s, items |-> items]

None == Val("NoneType", 0, "", <<>>)
\* An argument the caller did not pass, or an attribute not assigned yet.
Absent == Val("<absent>", 0, "", <<>>)
True == Val("bool", 1, "", <<>>)
False == Val("bool", 0, "", <<>>)
PyBool(b) == IF b THEN True ELSE False
PyInt(n) == Val("int", n, "", <<>>)
PyFloat(n) == Val("float", n, "", <<>>)
PyDatetime(n) == Val("datetime", n, "", <<>>)
PyStr(s) == Val("str", 0, s, <<>>)
PyList(items) == Val("list", 0, "", items)
Class(name) == Val("type", 0, name, <<>>)
\* The identifiers of the model.
UuidInts == {1, 2}
\* uuid.UUID objects; v stands for the 128-bit integer of the identifier.
UUID(n) == Val("UUID", n, "", <<>>)
\* A member of the enumeration cls whose .value is PyInt(raw).
Member(cls, raw) == Val(cls, raw, "", <<>>)
\* An instance of the model class Order with attributes id and sku.
Order(id, sku) == Val("Order", 0, "", <<PyInt(id), PyInt(sku)>>)

\* Python truth value of x, as `if x` and `x and y` test it.
Truthy(x) ==
    CASE x.t = "NoneType" -> FALSE
      [] x.t \in {"bool", "int", "float"} -> x.v # 0
      [] x.t = "str" -> x.s # ""
      [] x.t = "list" -> x.items # <<>>
      [] OTHER -> TRUE

Ok(x) == [ok |-> TRUE, val |-> x, err |-> ""]
Raise(e) == [ok |-> FALSE, val |-> None, err |-> e]

---------------------------------------------------------------------------
(* Classes *)

ScalarClasses == {"StringType", "IntType", "FloatType", "DatetimeType", "BoolType"}
DescriptorClasses == ScalarClasses \cup
    {"UniqueIdType", "ListType", "ForeignType", "EnumType", "HashType"}
ModelClasses == {"Order"}
EnumClasses == {"Color"}

\* issubclass(dt, base) for the three bases ListType tests.
IsSubclass(dt, bases) == dt.t = "type" /\ dt.s \in bases

\* isinstance(x, ty): the class of x is ty or a subclass of it (bool is a
\* subclass of int).
IsInstance(x, ty) ==
    \/ x.t = ty.s
    \/ x.t = "bool" /\ ty.s = "int"

---------------------------------------------------------------------------
(* Collaborators outside datatypes.py: the model registry and the model    *)
(* classes of model_base, and the Hashed wrapper of hash_function.         *)

\* model_base.get_loaded_model(name): the registered model class of that name.
get_loaded_model(name) ==
    IF name \in ModelClasses THEN Ok(Class(name)) ELSE Raise("LookupError")

\* Model.get_primary_key_name(): Order declares id as its primary key.
get_primary_key_name(model) ==
    IF IsSubclass(model, ModelClasses) THEN Ok(PyStr("id")) ELSE Raise("AttributeError")

\* The attributes of an Order instance, in the order of its items.
OrderFields == <<"id", "sku">>

\* Every Order instance that can be stored.
OrderInstances == {Order(1, 2), Order(2, 1)}

\* Model.load(**{key: value}) against the stored instances db: the stored
\* instance whose attribute key equals value.
load(model, db, key, value) ==
    IF ~IsSubclass(model, ModelClasses) THEN Raise("AttributeError")
    ELSE IF key.t # "str" \/ ~(\E i \in 1..Len(OrderFields) : OrderFields[i] = key.s)
    THEN Raise("TypeError")
    ELSE LET i == CHOOSE j \in 1..Len(OrderFields) : OrderFields[j] = key.s
             found == {o \in db : o.items[i] = value}
         IN  IF found = {} THEN Raise("NotFoundError")
             ELSE Ok(CHOOSE o \in found : TRUE)

\* hash_function.Hashed(value): the wrapper of the stored hash text value.
Hashed(value) == Ok(Val("Hashed", 0, value.s, <<>>))

---------------------------------------------------------------------------
(* Descriptor objects *)

\* A descriptor whose __init__ has not run: no attribute is assigned.
NewObject(cls) ==
    [cls |-> cls, primary |-> Absent, non_null |-> Absent, unique |-> Absent,
     default |-> Absent, data_instance |-> <<>>, data_type |-> Absent,
     model |-> Absent, model_primary_key |-> Absent, enum |-> Absent]

CtorOk(self) == [ok |-> TRUE, err |-> "", self |-> self]
CtorRaise(e) == [ok |-> FALSE, err |-> e, self |-> NewObject("")]

\* ForeignType.type: reads self.__model, which exists once line 196 has run.
ForeignType_type(self) ==
    IF self.model = Absent THEN Raise("AttributeError") ELSE Ok(self.model)

\* EnumType.type: reads self.__enum, which exists once line 220 has run.
EnumType_type(self) ==
    IF self.enum = Absent THEN Raise("AttributeError") ELSE Ok(self.enum)

\* The type property of each class.
type(self) ==
    CASE self.cls = "StringType" -> Ok(Class("str"))
      [] self.cls = "IntType" -> Ok(Class("int"))
      [] self.cls = "FloatType" -> Ok(Class("float"))
      [] self.cls = "UniqueIdType" -> Ok(Class("UUID"))
      [] self.cls = "ListType" -> Ok(Class("list"))
      [] self.cls = "ForeignType" -> ForeignType_type(self)
      [] self.cls = "EnumType" -> EnumType_type(self)
      [] self.cls = "DatetimeType" -> Ok(Class("datetime"))
      [] self.cls = "BoolType" -> Ok(Class("bool"))
      [] self.cls = "HashType" -> Ok(Class("Hashed"))

\* ModelTypeBase.__init__ without lines 29-31: primary forces nothing.
ModelTypeBase_init_unforced(self, primary, non_null, unique, default) ==
    LET s1 == [self EXCEPT !.primary = primary, !.non_null = non_null,
                           !.unique = unique]
    IN  IF Truthy(non_null) /\ default = None
        THEN CtorRaise("TypeError")
        ELSE IF default # None
        THEN LET ty == type(s1)
             IN  IF ~ty.ok THEN CtorRaise(ty.err)
                 ELSE IF ~IsInstance(default, ty.val) THEN CtorRaise("TypeError")
                 ELSE CtorOk([s1 EXCEPT !.default = default])
        ELSE CtorOk([s1 EXCEPT !.default = default])

\* ModelTypeBase.__init__ without lines 26-27: non_null asks for no default.
ModelTypeBase_init_unchecked(self, primary, non_null, unique, default) ==
    LET s1 == [self EXCEPT !.primary = primary, !.non_null = non_null,
                           !.unique = unique]
        s2 == IF Truthy(primary)
              THEN [s1 EXCEPT !.unique = True, !.non_null = True]
              ELSE s1
    IN  IF default # None
        THEN LET ty == type(s2)
             IN  IF ~ty.ok THEN CtorRaise(ty.err)
                 ELSE IF ~IsInstance(default, ty.val) THEN CtorRaise("TypeError")
                 ELSE CtorOk([s2 EXCEPT !.default = default])
        ELSE CtorOk([s2 EXCEPT !.default = default])

\* ModelTypeBase.__init__
ModelTypeBase_init(self, primary, non_null, unique, default) ==
    LET s1 == [self EXCEPT !.primary = primary, !.non_null = non_null,
                           !.unique = unique]
        s2 == IF Truthy(primary)
              THEN [s1 EXCEPT !.unique = True, !.non_null = True]
              ELSE s1
    IN  IF Truthy(non_null) /\ default = None
        THEN CtorRaise("TypeError")
        ELSE IF default # None
        THEN LET ty == type(s2)
             IN  IF ~ty.ok THEN CtorRaise(ty.err)
                 ELSE IF ~IsInstance(default, ty.val) THEN CtorRaise("TypeError")
                 ELSE CtorOk([s2 EXCEPT !.default = default])
        ELSE CtorOk([s2 EXCEPT !.default = default])

\* A default made by a call of uuid.uuid4() in each construction.
UniqueIdType_default_fresh == UUID((Len(descs) % Cardinality(UuidInts)) + 1)

\* The default of UniqueIdType.__init__'s parameter `default`: the expression
\* uuid.uuid4() of the def statement, evaluated once when the class is defined.
UniqueIdType_default_arg == uuid4_default

\* UniqueIdType.__init__
UniqueIdType_init(self, primary, non_null, unique, default) ==
    ModelTypeBase_init(self, primary, non_null, unique, default)

\* ForeignType.__init__
ForeignType_init(self, model, model_primary_key, primary, non_null, unique, default) ==
    LET b == ModelTypeBase_init(self, primary, non_null, unique, default)
        m == IF model.t = "str" THEN get_loaded_model(model.s) ELSE Ok(model)
        k == IF model_primary_key = None
             THEN get_primary_key_name(m.val)
             ELSE Ok(model_primary_key)
    IN  IF ~b.ok THEN b
        ELSE IF ~m.ok THEN CtorRaise(m.err)
        ELSE IF ~k.ok THEN CtorRaise(k.err)
        ELSE CtorOk([b.self EXCEPT !.model = m.val, !.model_primary_key = k.val])

\* EnumType.__init__
EnumType_init(self, enum_type, primary, non_null, unique, default) ==
    LET b == ModelTypeBase_init(self, primary, non_null, unique, default)
    IN  IF ~b.ok THEN b ELSE CtorOk([b.self EXCEPT !.enum = enum_type])

---------------------------------------------------------------------------
(* Calls: positional arguments args, keyword arguments kwargs *)

KwNames == {"primary", "non_null", "unique", "default", "model_primary_key"}
FlagNames == {"primary", "non_null", "unique", "default"}
NoKwargs == [n \in KwNames |-> Absent]

\* The parameters of each __init__ after self (ListType binds its own).
Sig(cls) ==
    CASE cls = "ForeignType" ->
            <<"model", "model_primary_key", "primary", "non_null", "unique", "default">>
      [] cls = "EnumType" -> <<"enum_type", "primary", "non_null", "unique", "default">>
      [] OTHER -> <<"primary", "non_null", "unique", "default">>

Pos(sig, name) ==
    IF \E i \in 1..Len(sig) : sig[i] = name
    THEN CHOOSE i \in 1..Len(sig) : sig[i] = name
    ELSE 0

\* The call does not fit the signature: Python raises TypeError before the body.
BindError(sig, args, kwargs) ==
    \/ Len(args) > Len(sig)
    \/ \E n \in KwNames : kwargs[n] # Absent /\ (Pos(sig, n) = 0 \/ Pos(sig, n) <= Len(args))
    \/ sig[1] \in {"model", "enum_type"} /\ Len(args) = 0

\* The argument bound to parameter name, or dflt, the default of the signature.
Param(sig, args, kwargs, name, dflt) ==
    LET passed == IF Pos(sig, name) \in 1..Len(args) THEN args[Pos(sig, name)]
                 ELSE IF name \in KwNames THEN kwargs[name]
                 ELSE Absent
    IN  IF passed = Absent THEN dflt ELSE passed

RECURSIVE Construct(_, _, _)

\* ListType.__init__
ListType_init(self, dt, args, primary, non_null, unique, default, kwargs) ==
    LET b == ModelTypeBase_init(self, primary, non_null, unique, default)
        inner ==
            IF IsSubclass(dt, ModelClasses)
            THEN ForeignType_init(NewObject("ForeignType"), dt, None, False, False, False, None)
            ELSE IF IsSubclass(dt, EnumClasses)
            THEN EnumType_init(NewObject("EnumType"), dt, False, False, False, None)
            ELSE Construct(dt.s, args, kwargs)
    IN  IF ~b.ok THEN b
        ELSE IF dt.t # "type" THEN CtorRaise("TypeError")
        ELSE IF IsSubclass(dt, ModelClasses \cup EnumClasses \cup DescriptorClasses)
        THEN IF ~inner.ok THEN inner
             ELSE CtorOk([b.self EXCEPT !.data_instance = <<inner.self>>, !.data_type = dt])
        ELSE CtorOk([b.self EXCEPT !.data_type = dt])

\* cls(*args, **kwargs): binds the call to the signature of cls.__init__ and
\* runs it on a new object.
Construct(cls, args, kwargs) ==
    LET sig == Sig(cls)
        P(name, dflt) == Param(sig, args, kwargs, name, dflt)
        self == NewObject(cls)
    IN  IF cls = "ListType"
        THEN IF Len(args) = 0 THEN CtorRaise("TypeError")
             ELSE ListType_init(self, Head(args), Tail(args),
                      Param(<<>>, <<>>, kwargs, "primary", False),
                      Param(<<>>, <<>>, kwargs, "non_null", False),
                      Param(<<>>, <<>>, kwargs, "unique", False),
                      Param(<<>>, <<>>, kwargs, "default", None),
                      [n \in KwNames |-> IF n \in FlagNames THEN Absent ELSE kwargs[n]])
        ELSE IF BindError(sig, args, kwargs) THEN CtorRaise("TypeError")
        ELSE IF cls = "ForeignType"
        THEN ForeignType_init(self, P("model", Absent), P("model_primary_key", None),
                 P("primary", False), P("non_null", False), P("unique", False),
                 P("default", None))
        ELSE IF cls = "EnumType"
        THEN EnumType_init(self, P("enum_type", Absent),
                 P("primary", False), P("non_null", False), P("unique", False),
                 P("default", None))
        ELSE IF cls = "UniqueIdType"
        THEN UniqueIdType_init(self, P("primary", False), P("non_null", False),
                 P("unique", False), P("default", UniqueIdType_default_arg))
        ELSE ModelTypeBase_init(self, P("primary", False), P("non_null", False),
                 P("unique", False), P("default", None))

---------------------------------------------------------------------------
(* Conversions.  A conversion result is [ok, val, err, calls]: calls are   *)
(* the Model.load calls it made, each <<keyword, value>>.                  *)

Return(x, calls) == [ok |-> TRUE, val |-> x, err |-> "", calls |-> calls]
Throw(e, calls) == [ok |-> FALSE, val |-> None, err |-> e, calls |-> calls]
Pure(r) == [ok |-> r.ok, val |-> r.val, err |-> r.err, calls |-> <<>>]

\* The canonical text str() gives each identifier.
CanonicalText(n) ==
    CASE n = 1 -> "123e4567-e89b-12d3-a456-426614174000"
      [] n = 2 -> "00000000-0000-0000-0000-000000000002"

\* The other texts uuid.UUID(hex) accepts for the same identifier: it drops
\* "urn:", "uuid:", braces and hyphens and reads the hex digits in either case.
OtherTexts(n) ==
    CASE n = 1 -> {"123E4567-E89B-12D3-A456-426614174000",
                   "{123e4567-e89b-12d3-a456-426614174000}",
                   "123e4567e89b12d3a456426614174000"}
      [] n = 2 -> {"urn:uuid:00000000-0000-0000-0000-000000000002"}

\* uuid.UUID(value)
uuid_UUID(value) ==
    IF value.t # "str" THEN Raise("AttributeError")
    ELSE IF \E n \in UuidInts : value.s \in {CanonicalText(n)} \cup OtherTexts(n)
    THEN Ok(UUID(CHOOSE n \in UuidInts : value.s \in {CanonicalText(n)} \cup OtherTexts(n)))
    ELSE Raise("ValueError")

\* str(value)
str(value) ==
    CASE value.t = "str" -> value
      [] value.t = "UUID" -> PyStr(CanonicalText(value.v))
      [] value.t = "Hashed" -> PyStr(value.s)
      [] value.t = "int" /\ value.v = 1 -> PyStr("1")
      [] value.t = "int" /\ value.v = 2 -> PyStr("2")
      [] value.t = "NoneType" -> PyStr("None")

\* The members of Color: RED = 1, GREEN = 2, BLUE = 3.
ColorValues == {1, 2, 3}

\* enum_type(value): the member with that value, or the member itself.
EnumCall(enum_type, value) ==
    IF value.t = enum_type.s THEN Ok(value)
    ELSE IF value.t = "int" /\ value.v \in ColorValues THEN Ok(Member(enum_type.s, value.v))
    ELSE Raise("ValueError")

\* getattr(value, name)
getattr(value, name) ==
    IF name.t # "str" THEN Raise("TypeError")
    ELSE IF value.t = "Order" /\ Pos(OrderFields, name.s) # 0
    THEN Ok(value.items[Pos(OrderFields, name.s)])
    ELSE Raise("AttributeError")

\* ModelTypeBase.create_instance
ModelTypeBase_create_instance(self, value) == Return(value, <<>>)

\* ModelTypeBase.to_model_data
ModelTypeBase_to_model_data(self, value) == Return(value, <<>>)

\* UniqueIdType.create_instance
UniqueIdType_create_instance(self, value) == Pure(uuid_UUID(value))

\* UniqueIdType.to_model_data without the str() of line 140.
UniqueIdType_to_model_data_raw(self, value) == Return(value, <<>>)

\* UniqueIdType.to_model_data
UniqueIdType_to_model_data(self, value) == Return(str(value), <<>>)

\* ForeignType.create_instance with the keyword of line 203 fixed to id.
ForeignType_create_instance_id(self, value, db) ==
    LET r == load(self.model, db, PyStr("id"), value)
        call == <<PyStr("id"), value>>
    IN  [ok |-> r.ok, val |-> r.val, err |-> r.err, calls |-> <<call>>]

\* ForeignType.create_instance
ForeignType_create_instance(self, value, db) ==
    LET r == load(self.model, db, self.model_primary_key, value)
        call == <<self.model_primary_key, value>>
    IN  [ok |-> r.ok, val |-> r.val, err |-> r.err, calls |-> <<call>>]

\* ForeignType.to_model_data
ForeignType_to_model_data(self, value) == Pure(getattr(value, self.model_primary_key))

\* EnumType.create_instance
EnumType_create_instance(self, value) == Pure(EnumCall(self.enum, value))

\* EnumType.to_model_data
EnumType_to_model_data(self, value) ==
    IF value.t \in EnumClasses THEN Return(PyInt(value.v), <<>>)
    ELSE Throw("AttributeError", <<>>)

\* HashType.create_instance
HashType_create_instance(self, value) == Pure(Hashed(value))

\* HashType.to_model_data
HashType_to_model_data(self, value) == Return(str(value), <<>>)

RECURSIVE create_instance(_, _, _)
RECURSIVE to_model_data(_, _)
RECURSIVE MapCreate(_, _, _, _, _)
RECURSIVE MapData(_, _, _)

\* [elem.create_instance(v) for v in items]: the first element that fails
\* ends the comprehension; done and calls are what was built before it.
MapCreate(elem, items, db, done, calls) ==
    IF items = <<>> THEN Return(PyList(done), calls)
    ELSE LET r == create_instance(elem, Head(items), db)
         IN  IF ~r.ok THEN Throw(r.err, calls \o r.calls)
             ELSE MapCreate(elem, Tail(items), db, Append(done, r.val), calls \o r.calls)

\* [elem.to_model_data(v) for v in items]
MapData(elem, items, done) ==
    IF items = <<>> THEN Return(PyList(done), <<>>)
    ELSE LET r == to_model_data(elem, Head(items))
         IN  IF ~r.ok THEN Throw(r.err, <<>>)
             ELSE MapData(elem, Tail(items), Append(done, r.val))

\* ListType.create_instance.  A value that is no list is an int, None or
\* another object that cannot be iterated.
ListType_create_instance(self, value, db) ==
    IF IsSubclass(self.data_type, DescriptorClasses)
    THEN IF value.t # "list" THEN Throw("TypeError", <<>>)
         ELSE MapCreate(self.data_instance[1], value.items, db, <<>>, <<>>)
    ELSE Return(value, <<>>)

\* ListType.to_model_data
ListType_to_model_data(self, value) ==
    IF IsSubclass(self.data_type, DescriptorClasses)
    THEN IF value.t # "list" THEN Throw("TypeError", <<>>)
         ELSE MapData(self.data_instance[1], value.items, <<>>)
    ELSE Return(value, <<>>)

\* self.create_instance(value), by the class of self; db is what Model.load finds.
create_instance(self, value, db) ==
    CASE self.cls = "UniqueIdType" -> UniqueIdType_create_instance(self, value)
      [] self.cls = "ListType" -> ListType_create_instance(self, value, db)
      [] self.cls = "ForeignType" -> ForeignType_create_instance(self, value, db)
      [] self.cls = "EnumType" -> EnumType_create_instance(self, value)
      [] self.cls = "HashType" -> HashType_create_instance(self, value)
      [] OTHER -> ModelTypeBase_create_instance(self, value)

\* self.to_model_data(value), by the class of self.
to_model_data(self, value) ==
    CASE self.cls = "UniqueIdType" -> UniqueIdType_to_model_data(self, value)
      [] self.cls = "ListType" -> ListType_to_model_data(self, value)
      [] self.cls = "ForeignType" -> ForeignType_to_model_data(self, value)
      [] self.cls = "EnumType" -> EnumType_to_model_data(self, value)
      [] self.cls = "HashType" -> HashType_to_model_data(self, value)
      [] OTHER -> ModelTypeBase_to_model_data(self, value)

---------------------------------------------------------------------------
(* The inputs the operations are given *)

HashedAbc == Val("Hashed", 0, "abc", <<>>)
Canon1 == PyStr(CanonicalText(1))
Upper1 == PyStr("123E4567-E89B-12D3-A456-426614174000")

SeqsUpTo(S, n) == UNION {[1..k -> S] : k \in 0..n}

\* The default argument of a constructor call: not passed, None, or a value.
DefaultArgs ==
    {Absent, None, PyStr("abc"), PyInt(7), True, PyFloat(1), PyDatetime(1), UUID(1),
     PyList(<<>>), Member("Color", 1), Order(1, 2), HashedAbc}

FlagKwargs(keys) ==
    {[primary |-> p, non_null |-> n, unique |-> u, default |-> d, model_primary_key |-> k] :
        p \in {True, False}, n \in {True, False}, u \in {True, False},
        d \in DefaultArgs, k \in keys}

Calls(classes, argss, keys) ==
    {[cls |-> c, args |-> a, kwargs |-> kw] :
        c \in classes, a \in argss, kw \in FlagKwargs(keys)}

ScalarCalls == Calls(ScalarClasses \cup {"HashType"}, {<<>>}, {Absent})
UniqueIdCalls == Calls({"UniqueIdType"}, {<<>>}, {Absent})
EnumCalls == Calls({"EnumType"}, {<<Class("Color")>>}, {Absent})
ForeignCalls ==
    Calls({"ForeignType"}, {<<Class("Order")>>, <<PyStr("Order")>>, <<PyStr("Nope")>>},
          {Absent, PyStr("sku")})
ListCalls ==
    Calls({"ListType"},
          {<<Class("Order")>>, <<Class("Color")>>, <<Class("int")>>,
           <<Class("IntType")>>, <<Class("IntType"), True>>, <<Class("UniqueIdType")>>,
           <<Class("HashType")>>, <<Class("EnumType"), Class("Color")>>,
           <<Class("ForeignType"), Class("Order")>>,
           <<Class("ListType"), Class("UniqueIdType")>>},
          {Absent, PyStr("sku")})

\* The calls of a history of UniqueIdType constructions.
UniqueIdHistoryCalls ==
    {c \in UniqueIdCalls :
        c.kwargs.unique = False /\ c.kwargs.default \in {Absent, None, UUID(1), UUID(2)}}

\* The class of the element descriptor of a List descriptor; a List over a
\* plain class has none.
ElemOf(d) == IF d.data_instance # <<>> THEN d.data_instance[1] ELSE NewObject("")

RECURSIVE RawElems(_)
RECURSIVE NativeElems(_)

\* Stored values handed to create_instance as the items of a sequence.
RawElems(d) ==
    CASE d.cls = "UniqueIdType" -> {Canon1, Upper1}
      [] d.cls = "EnumType" -> {PyInt(1), PyInt(9)}
      [] d.cls = "ForeignType" -> {PyInt(1), PyInt(2)}
      [] d.cls = "HashType" -> {PyStr("abc")}
      [] d.cls = "ListType" -> {PyList(<<>>)} \cup {PyList(<<e>>) : e \in RawElems(ElemOf(d))}
      [] OTHER -> {PyInt(1), PyStr("abc")}

\* In-memory values handed to to_model_data as the items of a sequence.
NativeElems(d) ==
    CASE d.cls = "UniqueIdType" -> {UUID(1), UUID(2)}
      [] d.cls = "EnumType" -> {Member("Color", 1), Member("Color", 2)}
      [] d.cls = "ForeignType" -> {Order(1, 2), Order(2, 1)}
      [] d.cls = "HashType" -> {HashedAbc}
      [] d.cls = "ListType" ->
            {PyList(<<>>)} \cup {PyList(<<e>>) : e \in NativeElems(ElemOf(d))}
      [] OTHER -> {PyInt(1), PyStr("abc")}

\* Stored values handed to d.create_instance.
RawSamples(d) ==
    CASE d.cls = "UniqueIdType" ->
            {Canon1, Upper1, PyStr("{123e4567-e89b-12d3-a456-426614174000}"),
             PyStr("urn:uuid:00000000-0000-0000-0000-000000000002"),
             PyStr("abc"), PyInt(1)}
      [] d.cls = "EnumType" -> {PyInt(1), PyInt(3), PyInt(9)}
      [] d.cls = "ForeignType" -> {PyInt(1), PyInt(2), PyInt(7)}
      [] d.cls = "HashType" -> {PyStr("abc"), PyStr("")}
      [] d.cls = "ListType" ->
            {PyInt(5)} \cup {PyList(s) : s \in SeqsUpTo(RawElems(ElemOf(d)), MaxLen)}
      [] OTHER -> {None, PyInt(1), PyStr("abc")}

\* In-memory values handed to d.to_model_data.
NativeSamples(d) ==
    CASE d.cls = "UniqueIdType" -> {UUID(1), UUID(2), Canon1}
      [] d.cls = "EnumType" -> {Member("Color", 1), Member("Color", 2), PyInt(1)}
      [] d.cls = "ForeignType" -> {Order(1, 2), Order(2, 1), PyInt(1)}
      [] d.cls = "HashType" -> {HashedAbc, PyStr("abc")}
      [] d.cls = "ListType" ->
            {PyInt(5)} \cup {PyList(s) : s \in SeqsUpTo(NativeElems(ElemOf(d)), MaxLen)}
      [] OTHER -> {None, PyInt(1), PyStr("abc")}

RECURSIVE UsesLoader(_)
UsesLoader(d) ==
    \/ d.cls = "ForeignType"
    \/ d.cls = "ListType" /\ IsSubclass(d.data_type, DescriptorClasses)
                          /\ UsesLoader(d.data_instance[1])

\* What Model.load can find when a conversion runs.
Stores(d) == IF UsesLoader(d) THEN {{}, {Order(1, 2)}, OrderInstances} ELSE {{}}

Accessors == {"primary", "non_null", "unique", "default", "type"}

---------------------------------------------------------------------------
(* The state machine *)

NoCall == [cls |-> "", args |-> <<>>, kwargs |-> NoKwargs]

\* The record of an operation.  src is the stored value a to_model_data
\* argument was made from, when it is the result of the create_instance before.
Last(op, call, idx, arg, src, db, ok, val, err, calls) ==
    [op |-> op, call |-> call, idx |-> idx, arg |-> arg, src |-> src, db |-> db,
     ok |-> ok, val |-> val, err |-> err, calls |-> calls]

Init ==
    /\ uuid4_default \in {UUID(n) : n \in UuidInts}
    /\ descs = <<>>
    /\ given = <<>>
    /\ last = Last("init", NoCall, 0, None, Absent, {}, TRUE, None, "", <<>>)

\* call.cls(*call.args, **call.kwargs): a descriptor, or the exception.
Build(call) ==
    LET r == Construct(call.cls, call.args, call.kwargs)
    IN  /\ descs' = IF r.ok THEN Append(descs, r.self) ELSE descs
        /\ given' = IF r.ok THEN Append(given, call.kwargs.default) ELSE given
        /\ last' = Last("new", call, IF r.ok THEN Len(descs) + 1 ELSE 0, None, Absent, {},
                        r.ok, None, r.err, <<>>)
        /\ UNCHANGED uuid4_default

\* The field declaration of a model class: one descriptor is constructed by
\* one of calls.  A constructor that raises leaves no object behind, so one
\* attempt from the initial state shows all a later attempt could.
New(calls) ==
    /\ descs = <<>>
    /\ last.op = "init"
    /\ \E call \in calls : Build(call)

\* One more UniqueIdType is constructed in the same process.
NewUniqueId(calls) ==
    /\ Len(descs) < MaxDescs
    /\ \E call \in calls : Build(call)

\* descs[i].create_instance(value) that keeps its result in the descriptor.
CreateInstance_memo(i, value, db) ==
    LET r == create_instance(descs[i], value, db)
    IN  /\ last' = Last("create_instance", NoCall, i, value, Absent, db,
                        r.ok, r.val, r.err, r.calls)
        /\ descs' = [descs EXCEPT ![i].default = IF r.ok THEN r.val ELSE @]
        /\ UNCHANGED <<uuid4_default, given>>

\* descs[i].create_instance(value)
CreateInstance(i, value, db) ==
    LET r == create_instance(descs[i], value, db)
    IN  /\ last' = Last("create_instance", NoCall, i, value, Absent, db,
                        r.ok, r.val, r.err, r.calls)
        /\ UNCHANGED <<uuid4_default, descs, given>>

\* descs[i].to_model_data(value)
ToModelData(i, value, src) ==
    LET r == to_model_data(descs[i], value)
    IN  /\ last' = Last("to_model_data", NoCall, i, value, src, {},
                        r.ok, r.val, r.err, r.calls)
        /\ UNCHANGED <<uuid4_default, descs, given>>

\* descs[i].to_model_data(x) for the x that descs[i].create_instance just returned.
WriteBack(i) ==
    /\ last.op = "create_instance"
    /\ last.idx = i
    /\ last.ok
    /\ ToModelData(i, last.val, last.arg)

\* A read of the property name of descs[i].
Read(i, name) ==
    LET r == IF name = "type" THEN type(descs[i]) ELSE Ok(descs[i][name])
    IN  /\ last' = Last("read", NoCall, i, PyStr(name), Absent, {}, r.ok, r.val, r.err, <<>>)
        /\ UNCHANGED <<uuid4_default, descs, given>>

Next ==
    \/ New(EnumCalls)
    \/ New(ForeignCalls)
    \/ New(ScalarCalls)
    \/ New(UniqueIdCalls)
    \/ New(ListCalls)
    \/ \E i \in DOMAIN descs : \E value \in RawSamples(descs[i]) : \E db \in Stores(descs[i]) :
            CreateInstance(i, value, db)
    \/ \E i \in DOMAIN descs : \E value \in NativeSamples(descs[i]) :
            ToModelData(i, value, Absent)
    \/ \E i \in DOMAIN descs : WriteBack(i)
    \/ \E i \in DOMAIN descs : \E name \in Accessors : Read(i, name)

Spec == Init /\ [][Next]_vars

\* Histories of UniqueIdType constructions and reads of their properties.
NextUniqueId ==
    \/ NewUniqueId(UniqueIdHistoryCalls)
    \/ \E i \in DOMAIN descs : \E name \in Accessors : Read(i, name)

SpecUniqueId == Init /\ [][NextUniqueId]_vars

---------------------------------------------------------------------------
(* Properties *)

\* The latest operation is a constructor call.
Constructing == last.op = "new"
\* The latest operation is a constructor call that returned descs[last.idx].
Constructed == last.op = "new" /\ last.ok
Kw == last.call.kwargs
Target == descs[last.idx]

\* The class the claims call native_type, by the name of its class.
NativeName(call) ==
    CASE call.cls = "StringType" -> "str"
      [] call.cls = "IntType" -> "int"
      [] call.cls = "FloatType" -> "float"
      [] call.cls = "BoolType" -> "bool"
      [] call.cls = "DatetimeType" -> "datetime"
      [] call.cls = "UniqueIdType" -> "UUID"
      [] call.cls = "HashType" -> "Hashed"
      [] call.cls = "ListType" -> "list"
      [] call.cls \in {"EnumType", "ForeignType"} -> call.args[1].s

\* The call succeeds when it is given no default and non_null = False.
FitsWithoutDefault(call) ==
    Construct(call.cls, call.args,
              [call.kwargs EXCEPT !.default = Absent, !.non_null = False]).ok

\* C1: a constructor call with primary=True that succeeds yields a descriptor
\* whose primary, unique and non_null are all True, whatever non_null, unique
\* and default were passed.
C1_PrimaryForcesUniqueNonNull ==
    (Constructed /\ Kw.primary = True) =>
        /\ Target.primary = True
        /\ Target.unique = True
        /\ Target.non_null = True

C1_Witness ==
    /\ Constructed
    /\ Kw.primary = True /\ Kw.non_null = False /\ Kw.unique = False
    /\ Target.cls = "ListType"
    /\ Target.unique = True

\* C2 as claimed: for every class, a constructor call with non_null=True and
\* no default argument raises TypeError and no descriptor results.
C2_Original ==
    (Constructing /\ Kw.non_null = True /\ Kw.default = Absent) =>
        ~last.ok /\ last.err = "TypeError" /\ descs = <<>>

\* C2 amended: for every class but UniqueIdType, a constructor call with
\* non_null=True and no default argument raises TypeError and no descriptor
\* results; UniqueIdType then takes the identifier its signature holds as the
\* default and succeeds.
C2_NonNullNeedsDefault ==
    (Constructing /\ Kw.non_null = True /\ Kw.default = Absent) =>
        IF last.call.cls = "UniqueIdType"
        THEN last.ok /\ Target.default = uuid4_default /\ Target.non_null = True
        ELSE ~last.ok /\ last.err = "TypeError" /\ descs = <<>>

C2_Witness ==
    /\ Constructing
    /\ Kw.non_null = True /\ Kw.default = Absent /\ Kw.primary = True
    /\ last.call.cls = "EnumType"
    /\ ~last.ok

\* C3 as claimed: every constructed descriptor whose non_null is true has a
\* default that is not None.
C3_NonNullHasDefault ==
    \A i \in DOMAIN descs : Truthy(descs[i].non_null) => descs[i].default # None

\* C4 as claimed: a constructor call whose default is present and is not of
\* the native type raises TypeError, for every class.
C4_MistypedDefaultIsTypeError ==
    (/\ Constructing
     /\ FitsWithoutDefault(last.call)
     /\ Kw.default \notin {Absent, None}
     /\ Kw.default.t # NativeName(last.call)) =>
        ~last.ok /\ last.err = "TypeError"

\* C10 as claimed: a constructor call whose default is present and of the
\* native type succeeds, for every class, and the descriptor's default is that
\* value.
C10_TypedDefaultAccepted ==
    (/\ Constructing
     /\ FitsWithoutDefault(last.call)
     /\ Kw.default.t = NativeName(last.call)) =>
        last.ok /\ Target.default = Kw.default

\* The latest operation is to_model_data applied to what create_instance
\* returned for the stored value last.src.
WroteBack == last.op = "to_model_data" /\ last.src # Absent

\* C5 as claimed: to_model_data(create_instance(x)) = x for every descriptor
\* and every stored value x that create_instance accepts.
C5_Original == WroteBack => last.ok /\ last.val = last.src

RECURSIVE CanonicalRaw(_, _)
\* Every identifier text in the stored value x of descriptor d is in the
\* canonical form: lower case, hyphenated, no braces, no urn prefix.
CanonicalRaw(d, x) ==
    CASE d.cls = "UniqueIdType" -> \E n \in UuidInts : x = PyStr(CanonicalText(n))
      [] d.cls = "ListType" /\ IsSubclass(d.data_type, DescriptorClasses) /\ x.t = "list" ->
            \A i \in 1..Len(x.items) : CanonicalRaw(d.data_instance[1], x.items[i])
      [] OTHER -> TRUE

\* C5 amended: to_model_data(create_instance(x)) = x for every descriptor and
\* every stored value x that create_instance accepts and whose identifier
\* texts, those a UniqueIdType converts, are canonical.
C5_RoundTripCanonical ==
    (WroteBack /\ CanonicalRaw(descs[last.idx], last.src)) =>
        last.ok /\ last.val = last.src

C5_Witness ==
    /\ WroteBack
    /\ descs[last.idx].cls = "ListType"
    /\ descs[last.idx].data_type = Class("UniqueIdType")
    /\ last.src = PyList(<<Canon1, Canon1>>)
    /\ last.val = last.src

\* C6 as claimed: create_instance of a List descriptor over a model class, an
\* enumeration class or a descriptor class returns, for a sequence whose items
\* the element descriptor converts, the sequence of the converted items.
C6_ListConvertsElements ==
    (/\ last.op = "create_instance"
     /\ descs[last.idx].cls = "ListType"
     /\ IsSubclass(descs[last.idx].data_type,
                   ModelClasses \cup EnumClasses \cup DescriptorClasses)
     /\ last.arg.t = "list"
     /\ \A i \in 1..Len(last.arg.items) :
            create_instance(descs[last.idx].data_instance[1], last.arg.items[i], last.db).ok) =>
        /\ last.ok
        /\ last.val.t = "list"
        /\ Len(last.val.items) = Len(last.arg.items)
        /\ \A i \in 1..Len(last.arg.items) :
              last.val.items[i] =
                  create_instance(descs[last.idx].data_instance[1],
                                  last.arg.items[i], last.db).val

\* C7: a ForeignType takes the keyword of its loader call from the
\* model_primary_key argument, or from the model when none is passed;
\* create_instance(v) calls Model.load once, with that keyword bound to v, and
\* its outcome is the outcome of the load; to_model_data(inst) is the
\* attribute of that name of inst.
C7_ForeignDelegates ==
    /\ (Constructed /\ Target.cls = "ForeignType") =>
          Target.model_primary_key =
              IF Kw.model_primary_key # Absent THEN Kw.model_primary_key ELSE PyStr("id")
    /\ (last.op = "create_instance" /\ descs[last.idx].cls = "ForeignType") =>
          LET d == descs[last.idx]
              r == load(d.model, last.db, d.model_primary_key, last.arg)
          IN  /\ last.calls = << <<d.model_primary_key, last.arg>> >>
              /\ last.ok = r.ok /\ last.val = r.val /\ last.err = r.err
    /\ (last.op = "to_model_data" /\ descs[last.idx].cls = "ForeignType"
            /\ last.arg.t = "Order") =>
          /\ last.ok
          /\ last.val = last.arg.items[Pos(OrderFields, descs[last.idx].model_primary_key.s)]

C7_Witness ==
    /\ last.op = "create_instance"
    /\ descs[last.idx].cls = "ForeignType"
    /\ descs[last.idx].model_primary_key = PyStr("sku")
    /\ last.ok
    /\ last.val = Order(2, 1)

\* C8: no call of create_instance or to_model_data, failing or not, and no
\* read of a property changes any attribute of a constructed descriptor.
C8_Immutable == [][\A i \in DOMAIN descs : descs'[i] = descs[i]]_vars

C8_Witness ==
    /\ last.op = "to_model_data"
    /\ ~last.ok
    /\ descs[last.idx].cls = "ListType"
    /\ descs[last.idx].data_instance # <<>>

\* C9: all UniqueIdType descriptors constructed without a default argument
\* report the same default, and constructing another descriptor leaves the
\* default of the earlier ones as it was.
C9_SharedDefault ==
    /\ [](\A i, j \in DOMAIN descs :
            (given[i] = Absent /\ given[j] = Absent) => descs[i].default = descs[j].default)
    /\ [][\A i \in DOMAIN descs : descs'[i].default = descs[i].default]_vars

C9_Witness ==
    /\ Len(descs) >= 2
    /\ given[1] = Absent /\ given[2] = Absent
    /\ descs[1].primary # descs[2].primary
    /\ descs[1].default = descs[2].default

=============================================================================
